---- MODULE Spec2Model ----
(***************************************************************************)
(* WikiCap year overview: the Wikipedia year-page extraction pipeline      *)
(* (backend/resources/wiki_service.py) and the two web handlers that       *)
(* guard it (backend/app/api/v1/year.py and wiki.py).                      *)
(*                                                                         *)
(* A text is a sequence of tokens ("*", " ", "\n", a word, a citation      *)
(* marker "[1]"); a wikitext is one text, split into lines by Splitlines.  *)
(* A Python dict is a sequence of entries in insertion order.              *)
(***************************************************************************)
EXTENDS Integers, Sequences, FiniteSets, TLC

VARIABLES
    pc,         \* "idle" | "loop" (inside fetch_year_summary's for) | "done"
    entry,      \* who is running: "none" | "summary" | "year" | "wiki" | "extract"
    year,       \* the year argument
    tocKind,    \* "none" | "fail" | "missing" | "ok": the TOC response
    toc,        \* the tocdata dict of the response: a sequence of values
    months,     \* get_month_sections' dict: <<[title, index], ...>>
    pos,        \* position of the for loop over months.items()
    results,    \* fetch_year_summary's dict: <<[month, events], ...>>
    fetchLog,   \* every upstream/service call issued, in order
    outcome,    \* "none" | "returned" | "raised"
    error,      \* the exception raised ("" when none)
    response,   \* what the web handler answered
    xin,        \* extract_month_events called alone: [wikitext, limit]
    xout        \* its result: [events, cleaned, done]

vars == <<pc, entry, year, tocKind, toc, months, pos, results, fetchLog,
          outcome, error, response, xin, xout>>

----------------------------------------------------------------------------
(* Bounds of the model *)

\* longest tocdata dict (number of values)
MaxTocValues == 2
\* longest list held by one tocdata value
MaxListLen == 1
\* longest exhaustively enumerated wikitext, in lines, when
\* extract_month_events is called alone
MaxLines == 3
\* longest exhaustively enumerated wikitext of a month section, in lines
MaxSectionLines == 1
\* largest limit handed to extract_month_events when it is called alone
MaxCap == 3

(* Program constants *)

DEFAULT_LIMIT == 6
MIN_YEAR == 1800
MAX_YEAR == 2026
WIKI_MAX_YEAR == 2027
HTTP_200_OK == 200
HTTP_400_BAD_REQUEST == 400
HTTP_502_BAD_GATEWAY == 502

MONTHS ==
    {"January", "February", "March", "April", "May", "June",
     "July", "August", "September", "October", "November", "December"}

----------------------------------------------------------------------------
(* Sequence helpers *)

Min(a, b) == IF a <= b THEN a ELSE b

SeqsUpTo(S, n) == UNION {[1..k -> S] : k \in 0..n}

Take(s, n) == SubSeq(s, 1, Min(n, Len(s)))

RECURSIVE Flatten(_)
Flatten(ss) == IF ss = <<>> THEN <<>> ELSE Head(ss) \o Flatten(Tail(ss))

----------------------------------------------------------------------------
(* Texts: splitlines and the Line Cleaner *)

NL == "\n"

\* "\n".join(lines): the wikitext whose lines are `lines`
RECURSIVE JoinLines(_)
JoinLines(lines) ==
    IF lines = <<>> THEN <<>>
    ELSE IF Len(lines) = 1 THEN lines[1]
    ELSE lines[1] \o <<NL>> \o JoinLines(Tail(lines))

\* str.splitlines(): cut at every "\n"; a text that ends in "\n" has no
\* empty last line, and the empty text has no line at all
RECURSIVE SplitFrom(_, _, _)
SplitFrom(text, i, cur) ==
    IF i > Len(text) THEN (IF cur = <<>> THEN <<>> ELSE <<cur>>)
    ELSE IF text[i] = NL THEN <<cur>> \o SplitFrom(text, i + 1, <<>>)
    ELSE SplitFrom(text, i + 1, Append(cur, text[i]))

Splitlines(text) == SplitFrom(text, 1, <<>>)

\* line.startswith("*")
StartsWithStar(line) == line # <<>> /\ line[1] = "*"

RECURSIVE DropLeading(_, _)
DropLeading(line, S) ==
    IF line # <<>> /\ Head(line) \in S THEN DropLeading(Tail(line), S) ELSE line

RECURSIVE DropTrailing(_, _)
DropTrailing(line, S) ==
    IF line # <<>> /\ line[Len(line)] \in S
    THEN DropTrailing(SubSeq(line, 1, Len(line) - 1), S) ELSE line

IsCitation(tok) == tok = "[1]"

NotCitation(tok) == ~IsCitation(tok)

\* CLEANER.clean_event_line(line, keep_date_prefix = False): list markers and
\* citation markers stripped, whitespace trimmed; <<>> (falsy) when nothing
\* is left
CleanEventLine(line) ==
    DropTrailing(DropLeading(SelectSeq(line, NotCitation), {"*", " "}), {" "})

----------------------------------------------------------------------------
(* extract_month_events *)

LimitReachedOffByOne(events, limit) == Len(events) > limit

\* line 86: if len(events) >= limit
LimitReached(events, limit) == Len(events) >= limit

\* the for loop of lines 78-87 from line i on; `cleaned` counts the lines
\* handed to the Line Cleaner
RECURSIVE ExtractLoop(_, _, _, _, _)
ExtractLoop(lines, i, events, cleaned, limit) ==
    IF i > Len(lines) THEN [events |-> events, cleaned |-> cleaned]
    ELSE IF ~StartsWithStar(lines[i])
         THEN ExtractLoop(lines, i + 1, events, cleaned, limit)
    ELSE LET clean == CleanEventLine(lines[i])
             evs   == IF clean # <<>> THEN Append(events, clean) ELSE events
         IN  IF LimitReached(evs, limit)
             THEN [events |-> evs, cleaned |-> cleaned + 1]
             ELSE ExtractLoop(lines, i + 1, evs, cleaned + 1, limit)

ExtractMonthEvents(wikitext, limit) ==
    ExtractLoop(Splitlines(wikitext), 1, <<>>, 0, limit)

----------------------------------------------------------------------------
(* The table of contents *)

\* TOC entries the upstream may list: a month listed under two section
\* indexes, another month, and a heading that is no month
Entries ==
    { [line |-> "February", index |-> "1"],
      [line |-> "January",  index |-> "2"],
      [line |-> "January",  index |-> "3"],
      [line |-> "See also", index |-> "4"] }

\* the values of the tocdata dict: a list of entries, one entry (a dict), or
\* anything else (a string, a number)
TocValues ==
    {[type |-> "list", items |-> its] : its \in SeqsUpTo(Entries, MaxListLen)}
    \cup {[type |-> "dict", items |-> <<e>>] : e \in Entries}
    \cup {[type |-> "str", items |-> <<>>]}

Tocs == SeqsUpTo(TocValues, MaxTocValues)

\* what the upstream answers to the tocdata request
TocResponses ==
    {[kind |-> "fail", toc |-> <<>>], [kind |-> "missing", toc |-> <<>>]}
    \cup {[kind |-> "ok", toc |-> t] : t \in Tocs}

FetchYearTocSwallow(resp) ==
    IF resp.kind = "missing"
    THEN [raised |-> FALSE, error |-> "", py |-> "list", vals |-> <<>>]
    ELSE [raised |-> FALSE, error |-> "", py |-> "dict", vals |-> resp.toc]

\* raise_for_status() raises on failure; .get("parse", {}).get("tocdata", [])
\* yields the tocdata dict, or the default, a list, when it is missing
FetchYearToc(resp) ==
    IF resp.kind = "fail"
    THEN [raised |-> TRUE, error |-> "HTTPError", py |-> "none", vals |-> <<>>]
    ELSE IF resp.kind = "missing"
    THEN [raised |-> FALSE, error |-> "", py |-> "list", vals |-> <<>>]
    ELSE [raised |-> FALSE, error |-> "", py |-> "dict", vals |-> resp.toc]

\* the loop over toc.values(): a list extends items, a dict is appended,
\* any other value is skipped
RECURSIVE NormalizeLoop(_)
NormalizeLoop(vals) ==
    IF vals = <<>> THEN <<>>
    ELSE (IF Head(vals).type \in {"list", "dict"} THEN Head(vals).items ELSE <<>>)
         \o NormalizeLoop(Tail(vals))

\* normalize_toc(toc): toc.values() exists only on a dict
NormalizeToc(t) ==
    IF t.py # "dict"
    THEN [raised |-> TRUE, error |-> "AttributeError", items |-> <<>>]
    ELSE [raised |-> FALSE, error |-> "", items |-> NormalizeLoop(t.vals)]

IsMonthAny(title) == TRUE

\* line 54: title in MONTHS
IsMonth(title) == title \in MONTHS

HasKey(dict, title) == \E k \in 1..Len(dict) : dict[k].title = title

UpdateMonthsKeepFirst(dict, title, index) ==
    IF HasKey(dict, title) THEN dict
    ELSE Append(dict, [title |-> title, index |-> index])

\* line 55: months[title] = index. A new key goes last; an existing key
\* keeps its place and takes the new value
UpdateMonths(dict, title, index) ==
    IF HasKey(dict, title)
    THEN [k \in 1..Len(dict) |->
            IF dict[k].title = title THEN [title |-> title, index |-> index]
            ELSE dict[k]]
    ELSE Append(dict, [title |-> title, index |-> index])

\* lines 49-58: the loop over the flattened items
RECURSIVE MonthsLoop(_, _)
MonthsLoop(items, dict) ==
    IF items = <<>> THEN dict
    ELSE MonthsLoop(Tail(items),
                    IF IsMonth(Head(items).line)
                    THEN UpdateMonths(dict, Head(items).line, Head(items).index)
                    ELSE dict)

\* get_month_sections(year), given the upstream's answer
GetMonthSections(resp) ==
    LET t == FetchYearToc(resp)
        n == NormalizeToc(t)
    IN  IF t.raised THEN [raised |-> TRUE, error |-> t.error, months |-> <<>>]
        ELSE IF n.raised THEN [raised |-> TRUE, error |-> n.error, months |-> <<>>]
        ELSE [raised |-> FALSE, error |-> "", months |-> MonthsLoop(n.items, <<>>)]

----------------------------------------------------------------------------
(* Wikitexts *)

\* every kind of line: two events, one with a citation marker, a bare list
\* marker, a list marker followed by a space only, text that is no bullet,
\* and the empty line
Lines ==
    { <<"*", " ", "a", "[1]">>, <<"*", "b">>, <<"*">>, <<"*", " ">>, <<"a">>, <<>> }

\* the lines of the month sections the upstream serves
SectionLines == { <<"*", " ", "a", "[1]">>, <<"*">>, <<"a">> }

\* eight valid bullet lines
ScenarioB ==
    JoinLines(<< <<"*", "e1">>, <<"*", "e2">>, <<"*", "e3">>, <<"*", "e4">>,
                 <<"*", "e5">>, <<"*", "e6">>, <<"*", "e7">>, <<"*", "e8">> >>)

Wikitexts == {JoinLines(ls) : ls \in SeqsUpTo(Lines, MaxLines)} \cup {ScenarioB}

SectionWikitexts ==
    {JoinLines(ls) : ls \in SeqsUpTo(SectionLines, MaxSectionLines)}
    \cup {ScenarioB}

\* what the upstream answers to a section request
SectionResponses ==
    {[kind |-> "fail", wikitext |-> <<>>]}
    \cup {[kind |-> "ok", wikitext |-> w] : w \in SectionWikitexts}

\* raise_for_status() raises on failure; else the section's wikitext
GetMonthWikitext(resp) ==
    IF resp.kind = "fail"
    THEN [raised |-> TRUE, error |-> "HTTPError", wikitext |-> <<>>]
    ELSE [raised |-> FALSE, error |-> "", wikitext |-> resp.wikitext]

RecordResultFirst(dict, month, events) ==
    IF events # <<>> THEN <<[month |-> month, events |-> events]>> \o dict ELSE dict

\* lines 99-100: if events: results[month] = events (month is a new key)
RecordResult(dict, month, events) ==
    IF events # <<>> THEN Append(dict, [month |-> month, events |-> events])
    ELSE dict

----------------------------------------------------------------------------
(* The web boundary *)

\* the year fetch_year_summary is called with when it is called directly
SummaryYears == {MAX_YEAR}

Years == {MIN_YEAR - 1, MIN_YEAR, MAX_YEAR, WIKI_MAX_YEAR, WIKI_MAX_YEAR + 1}

NoBody == [year |-> 0, events |-> <<>>]

NoResponse == [kind |-> "none", status |-> 0, exc |-> "", body |-> NoBody]

HttpError(code) == [kind |-> "http_error", status |-> code, exc |-> "", body |-> NoBody]

Unhandled(exc) == [kind |-> "unhandled", status |-> 0, exc |-> exc, body |-> NoBody]

Success(y, evs) ==
    [kind |-> "success", status |-> HTTP_200_OK, exc |-> "",
     body |-> [year |-> y, events |-> evs]]

\* what a service called by /year/{year} does: raise, or return a value
\* (for fetch_year_events, a year summary)
Summaries == { <<>>, <<[month |-> "January", events |-> << <<"a">> >>]>> }

EventsOutcomes ==
    {[raised |-> TRUE, value |-> <<>>]}
    \cup {[raised |-> FALSE, value |-> m] : m \in Summaries}

LogEntry(call, month, index, ok, n) ==
    [call |-> call, month |-> month, index |-> index, ok |-> ok, n |-> n]

\* the calls made while the dict literal of year.py lines 20-27 is built:
\* in order, up to and including the first one that raises
RECURSIVE ServiceCalls(_, _)
ServiceCalls(names, oks) ==
    IF names = <<>> THEN <<>>
    ELSE <<LogEntry(Head(names), "", "", Head(oks), 0)>>
         \o (IF Head(oks) THEN ServiceCalls(Tail(names), Tail(oks)) ELSE <<>>)

----------------------------------------------------------------------------
(* The state machine *)

Init ==
    /\ pc = "idle"
    /\ entry = "none"
    /\ year = 0
    /\ tocKind = "none"
    /\ toc = <<>>
    /\ months = <<>>
    /\ pos = 0
    /\ results = <<>>
    /\ fetchLog = <<>>
    /\ outcome = "none"
    /\ error = ""
    /\ response = NoResponse
    /\ xin = [wikitext |-> <<>>, limit |-> 0]
    /\ xout = [events |-> <<>>, cleaned |-> 0]

\* fetch_year_summary(year), line 92: months = get_month_sections(year)
CallFetchYearSummary ==
    /\ pc = "idle"
    /\ \E y \in SummaryYears, resp \in TocResponses :
         LET g == GetMonthSections(resp)
         IN  /\ entry' = "summary"
             /\ year' = y
             /\ tocKind' = resp.kind
             /\ toc' = resp.toc
             /\ fetchLog' = <<LogEntry("toc", "", "", resp.kind # "fail", 0)>>
             /\ months' = g.months
             /\ IF g.raised
                THEN /\ pc' = "done"
                     /\ outcome' = "raised"
                     /\ error' = g.error
                     /\ pos' = 0
                ELSE /\ pc' = "loop"
                     /\ outcome' = "none"
                     /\ error' = ""
                     /\ pos' = 1
    /\ UNCHANGED <<results, response, xin, xout>>

\* one turn of the for loop, lines 95-100
FetchMonth ==
    /\ pc = "loop"
    /\ pos <= Len(months)
    /\ \E resp \in SectionResponses :
         LET m == months[pos]
             w == GetMonthWikitext(resp)
             x == ExtractMonthEvents(w.wikitext, DEFAULT_LIMIT)
         IN  IF w.raised
             THEN /\ fetchLog' = Append(fetchLog,
                                   LogEntry("section", m.title, m.index, FALSE, 0))
                  /\ pc' = "done"
                  /\ outcome' = "raised"
                  /\ error' = w.error
                  /\ UNCHANGED <<results, pos>>
             ELSE /\ fetchLog' = Append(fetchLog,
                                   LogEntry("section", m.title, m.index, TRUE,
                                            Len(x.events)))
                  /\ results' = RecordResult(results, m.title, x.events)
                  /\ pos' = pos + 1
                  /\ UNCHANGED <<pc, outcome, error>>
    /\ UNCHANGED <<entry, year, tocKind, toc, months, response, xin, xout>>

\* line 102: return results
ReturnSummary ==
    /\ pc = "loop"
    /\ pos > Len(months)
    /\ pc' = "done"
    /\ outcome' = "returned"
    /\ UNCHANGED <<entry, year, tocKind, toc, months, pos, results, fetchLog,
                   error, response, xin, xout>>

\* GET /year/{year}: year.py, get_year
YearGetYear ==
    /\ pc = "idle"
    /\ \E y \in Years, ev \in EventsOutcomes, oks \in [1..3 -> BOOLEAN] :
         /\ entry' = "year"
         /\ year' = y
         /\ IF y < MIN_YEAR \/ y > MAX_YEAR
            THEN /\ response' = HttpError(HTTP_400_BAD_REQUEST)
                 /\ fetchLog' = <<>>
            ELSE LET calls == ServiceCalls(
                                <<"fetch_year_events", "fetch_oscar_highlights",
                                  "fetch_movies_for_year", "fetch_series_for_year">>,
                                <<~ev.raised>> \o oks)
                 IN  /\ fetchLog' = calls
                     /\ response' = IF \E k \in 1..Len(calls) : ~calls[k].ok
                                    THEN HttpError(HTTP_502_BAD_GATEWAY)
                                    ELSE Success(y, ev.value)
    /\ pc' = "done"
    /\ UNCHANGED <<tocKind, toc, months, pos, results, outcome, error, xin, xout>>

\* GET /year/{year}/wiki: wiki.py, get_year. `status := 404` on line 14 makes
\* status a local of get_year: line 11 reads it unbound, line 16 reads an
\* attribute of the int 404. Neither HTTPException is ever built, and lines
\* 20-37 (the fetch) are never reached.
WikiGetYear ==
    /\ pc = "idle"
    /\ \E y \in Years :
         /\ entry' = "wiki"
         /\ year' = y
         /\ response' = IF y < MIN_YEAR \/ y > WIKI_MAX_YEAR
                        THEN Unhandled("UnboundLocalError")
                        ELSE Unhandled("AttributeError")
    /\ pc' = "done"
    /\ UNCHANGED <<tocKind, toc, months, pos, results, fetchLog, outcome, error,
                   xin, xout>>

\* the calls of extract_month_events tried: every wikitext with every small
\* limit, and Scenario B with the default limit
ExtractInputs ==
    {[wikitext |-> w, limit |-> cap] : w \in Wikitexts, cap \in 0..MaxCap}
    \cup {[wikitext |-> ScenarioB, limit |-> DEFAULT_LIMIT]}

\* extract_month_events(wikitext, limit) called on its own
CallExtract ==
    /\ pc = "idle"
    /\ \E in \in ExtractInputs :
         /\ xin' = in
         /\ xout' = ExtractMonthEvents(in.wikitext, in.limit)
    /\ entry' = "extract"
    /\ pc' = "done"
    /\ UNCHANGED <<year, tocKind, toc, months, pos, results, fetchLog, outcome,
                   error, response>>

Next ==
    \/ CallFetchYearSummary
    \/ FetchMonth
    \/ ReturnSummary
    \/ YearGetYear
    \/ WikiGetYear
    \/ CallExtract

Spec == Init /\ [][Next]_vars

----------------------------------------------------------------------------
(* What the properties speak of *)

\* the entries of the served table of contents, in source order
SourceEntries == Flatten([k \in 1..Len(toc) |-> toc[k].items])

SourcePositions(title) ==
    {k \in 1..Len(SourceEntries) : SourceEntries[k].line = title}

SetMax(S) == CHOOSE x \in S : \A y \in S : y <= x

SetMin(S) == CHOOSE x \in S : \A y \in S : x <= y

SectionFetches == {k \in 1..Len(fetchLog) : fetchLog[k].call = "section"}

InResults(month) == \E k \in 1..Len(results) : results[k].month = month

SummaryDone == pc = "done" /\ entry = "summary"

Returned == SummaryDone /\ outcome = "returned"

HandlerDone == pc = "done" /\ entry \in {"year", "wiki"}

\* C1: every key of the mapping fetch_year_summary builds is a canonical
\* month name, get_month_sections keeps no other title, and no section is
\* ever fetched for an entry whose title is not a canonical month name.
C1_KeysAreMonths ==
    /\ \A k \in 1..Len(results) : results[k].month \in MONTHS
    /\ \A k \in 1..Len(months) : months[k].title \in MONTHS
    /\ \A k \in SectionFetches : fetchLog[k].month \in MONTHS

\* C1 witness: a summary was returned for a table of contents that lists a
\* title that is no month beside a month that produced events.
C1_Witness ==
    /\ Returned
    /\ \E k \in 1..Len(SourceEntries) : SourceEntries[k].line \notin MONTHS
    /\ results # <<>>

\* C2: every month of the mapping holds between 1 and 6 events, and a month
\* whose extraction yielded no event is not in the mapping.
C2_EventCount ==
    /\ \A k \in 1..Len(results) :
         Len(results[k].events) >= 1 /\ Len(results[k].events) <= 6
    /\ \A k \in SectionFetches :
         (fetchLog[k].ok /\ fetchLog[k].n = 0) => ~InResults(fetchLog[k].month)

\* C2 witness: a returned summary with a month capped at 6 events (its
\* section held 8 bullet lines) and another month dropped for having none.
C2_Witness ==
    /\ Returned
    /\ \E k \in 1..Len(results) : Len(results[k].events) = 6
    /\ \E k \in SectionFetches : fetchLog[k].ok /\ fetchLog[k].n = 0

\* C3: when the table of contents was fetched and one month's section fetch
\* fails, fetch_year_summary still returns: the failed month is absent and
\* every month that was fetched and produced events is present.
C3_MonthFailureTolerated ==
    (/\ SummaryDone
     /\ tocKind = "ok"
     /\ \E k \in SectionFetches : ~fetchLog[k].ok)
    => /\ outcome = "returned"
       /\ \A k \in SectionFetches :
            /\ ~fetchLog[k].ok => ~InResults(fetchLog[k].month)
            /\ (fetchLog[k].ok /\ fetchLog[k].n >= 1) => InResults(fetchLog[k].month)

\* C4: when the table-of-contents fetch fails, fetch_year_summary raises the
\* upstream error, returns no mapping and issues no section fetch.
C4_TocFailureIsAggregate ==
    (entry = "summary" /\ tocKind = "fail")
    => /\ pc = "done"
       /\ outcome = "raised"
       /\ error = "HTTPError"
       /\ results = <<>>
       /\ SectionFetches = {}

\* C4 witness: a call whose table-of-contents fetch failed.
C4_Witness == SummaryDone /\ tocKind = "fail" /\ Len(fetchLog) = 1

\* C5: on a successful response with no table-of-contents data, or with no
\* entry titled by a canonical month, fetch_year_summary returns an empty
\* mapping and raises nothing.
C5_NoTocIsEmptyResult ==
    (/\ SummaryDone
     /\ tocKind \in {"missing", "ok"}
     /\ \A k \in 1..Len(SourceEntries) : SourceEntries[k].line \notin MONTHS)
    => /\ outcome = "returned"
       /\ results = <<>>

\* the bullet lines of a wikitext, and what the Line Cleaner makes of each
Bullets(wikitext) == SelectSeq(Splitlines(wikitext), StartsWithStar)

ValidUpTo(wikitext, j) ==
    Cardinality({i \in 1..j : CleanEventLine(Bullets(wikitext)[i]) # <<>>})

NonEmpty(text) == text # <<>>

\* the non-discarded cleaned bullet lines, in their original order
ValidEvents(wikitext) ==
    SelectSeq([i \in 1..Len(Bullets(wikitext)) |->
                 CleanEventLine(Bullets(wikitext)[i])], NonEmpty)

\* the bullet lines scanned until cap events are collected: none for cap 0,
\* all of them when fewer than cap are valid
LinesNeeded(wikitext, cap) ==
    LET n == Len(Bullets(wikitext))
    IN  IF cap = 0 THEN 0
        ELSE IF ValidUpTo(wikitext, n) < cap THEN n
        ELSE SetMin({j \in 1..n : ValidUpTo(wikitext, j) = cap})

\* C6: for every wikitext and every cap >= 0, extract_month_events returns
\* exactly the first min(cap, k) non-discarded cleaned bullet lines in order,
\* and hands no line to the Line Cleaner once cap events are collected.
C6_FirstCapInOrder ==
    (pc = "done" /\ entry = "extract")
    => /\ xout.events = Take(ValidEvents(xin.wikitext), xin.limit)
       /\ xout.cleaned = LinesNeeded(xin.wikitext, xin.limit)

\* C7: both get_year handlers answer 400 without any fetch exactly when the
\* year is outside [1800, 2026], and otherwise go on to the fetch.
C7_YearValidation ==
    HandlerDone
    => IF year < 1800 \/ year > 2026
       THEN /\ response.kind = "http_error"
            /\ response.status = 400
            /\ fetchLog = <<>>
       ELSE /\ response.status # 400
            /\ fetchLog # <<>>

\* C8: a month listed more than once is fetched once, with the section index
\* of its last occurrence, and appears at most once in the mapping.
C8_LastSeenWins ==
    (entry = "summary" /\ tocKind = "ok")
    => /\ \A k \in 1..Len(months) :
            /\ SourcePositions(months[k].title) # {}
            /\ months[k].index =
                 SourceEntries[SetMax(SourcePositions(months[k].title))].index
       /\ \A j, k \in 1..Len(months) : months[j].title = months[k].title => j = k
       /\ \A k \in SectionFetches :
            fetchLog[k].index =
              SourceEntries[SetMax(SourcePositions(fetchLog[k].month))].index
       /\ \A j, k \in SectionFetches : fetchLog[j].month = fetchLog[k].month => j = k
       /\ \A j, k \in 1..Len(results) : results[j].month = results[k].month => j = k
       /\ outcome = "returned"
          => \A k \in 1..Len(months) :
               \E j \in SectionFetches : fetchLog[j].month = months[k].title

\* C8 witness: January is listed under index "2" and then under index "3";
\* one section, "3", was fetched for it and the summary returned holds it.
C8_Witness ==
    /\ Returned
    /\ Len(SourceEntries) = 2
    /\ SourceEntries[1] = [line |-> "January", index |-> "2"]
    /\ SourceEntries[2] = [line |-> "January", index |-> "3"]
    /\ \E k \in SectionFetches : fetchLog[k].month = "January" /\ fetchLog[k].index = "3"
    /\ InResults("January")

C10_FailuresBecomeResponses ==
    (HandlerDone /\ year >= 1800 /\ year <= 2026)
    => IF \E k \in 1..Len(fetchLog) : ~fetchLog[k].ok
       THEN response.kind = "http_error"
       ELSE /\ response.kind = "success"
            /\ response.body.year = year

====
